---- MODULE Spec2Model ----
(***************************************************************************)
(* A model of the Zoho invoice analyzer service (src/api.py): the          *)
(* idempotency cache, the request handlers of /analyze and /analyze-free,  *)
(* the retrying provider dispatcher call_llm and the local heuristic       *)
(* analyzer.                                                               *)
(*                                                                         *)
(* Text is modelled character by character: a Python str is a sequence of  *)
(* one-character strings, so that strip/split, the csv reader, the         *)
(* f-string behind the cache key and the keyword tests are computed the    *)
(* way the code computes them.                                             *)
(***************************************************************************)
EXTENDS Integers, Sequences, FiniteSets, TLC

\* F applied to the value of v, with v evaluated once (a LET body is
\* evaluated again at every use).
With(v, F(_)) == CHOOSE r \in {F(x) : x \in {v}} : TRUE

\* The element of a set of one element: The({e : x \in {v}}) is e for x = v,
\* with v evaluated once. The digests are written with it, so that the table
\* of the digests of the model's texts is a constant computed once.
The(S) == CHOOSE r \in S : TRUE

(***************************************************************************)
(* Python str operations                                                   *)
(***************************************************************************)

\* str.strip() and csv treat these as white space / line ends; the texts of
\* the model use no other white space characters.
IsSpace(c) == c \in {" ", "\n", "\t"}

\* str.strip(): from the first to the last character that is no white space.
strip(s) ==
  LET keep == {i \in 1..Len(s) : ~IsSpace(s[i])} IN
  IF keep = {} THEN <<>>
  ELSE SubSeq(s, CHOOSE i \in keep : \A j \in keep : i <= j,
                 CHOOSE i \in keep : \A j \in keep : j <= i)

\* The positions of the line feeds of s, and the k-th of them (0 for k = 0).
LineFeeds(s) == {i \in 1..Len(s) : s[i] = "\n"}

NthLineFeed(s, k) ==
  IF k = 0 THEN 0
  ELSE CHOOSE i \in LineFeeds(s) : Cardinality({j \in LineFeeds(s) : j < i}) = k - 1

\* str.split('\n'): the pieces between line feeds; '' splits to [''].
split_lines(s) ==
  LET n == Cardinality(LineFeeds(s)) IN
  [k \in 1..(n + 1) |->
     SubSeq(s, NthLineFeed(s, k - 1) + 1,
               IF k = n + 1 THEN Len(s) ELSE NthLineFeed(s, k) - 1)]

\* Iterating a text file: the lines with their line feed kept; no line for
\* an empty remainder.
file_lines(s) ==
  LET n == Cardinality(LineFeeds(s))
      last == NthLineFeed(s, n) IN
  [k \in 1..(IF last < Len(s) THEN n + 1 ELSE n) |->
     SubSeq(s, NthLineFeed(s, k - 1) + 1,
               IF k = n + 1 THEN Len(s) ELSE NthLineFeed(s, k))]

\* str.lower() on the letters the model's texts use.
UpperCase == <<"A", "B", "C", "D", "E", "F", "G", "H", "I", "J", "K", "L", "M",
               "N", "O", "P", "Q", "R", "S", "T", "U", "V", "W", "X", "Y", "Z">>
LowerCase == <<"a", "b", "c", "d", "e", "f", "g", "h", "i", "j", "k", "l", "m",
               "n", "o", "p", "q", "r", "s", "t", "u", "v", "w", "x", "y", "z">>

lower_char(c) ==
  IF \E i \in 1..26 : UpperCase[i] = c
  THEN LowerCase[CHOOSE i \in 1..26 : UpperCase[i] = c]
  ELSE c

lower(s) == [i \in 1..Len(s) |-> lower_char(s[i])]

\* sub in s
contains(s, sub) ==
  \E i \in 0..(Len(s) - Len(sub)) : SubSeq(s, i + 1, i + Len(sub)) = sub

\* s.replace(c, '')
remove_char(s, c) == SelectSeq(s, LAMBDA x : x # c)

Digits == {"0", "1", "2", "3", "4", "5", "6", "7", "8", "9"}

\* str.isdigit()
isdigit(s) == s # <<>> /\ \A i \in 1..Len(s) : s[i] \in Digits

(***************************************************************************)
(* csv.reader (excel dialect: delimiter ',', quotechar '"', doublequote,   *)
(* not strict), the parser the code imports at api.py line 5 and uses      *)
(* through csv.DictReader at lines 85, 219 and 302.                        *)
(***************************************************************************)

\* The end-of-line mark the reader feeds itself after every line.
EOL == "EOL"

ParseReset == [state |-> "START_RECORD", field |-> <<>>, fields |-> <<>>, err |-> FALSE]

parse_save_field(p) == [p EXCEPT !.fields = Append(@, p.field), !.field = <<>>]

AfterLineEnd(c) == IF c = EOL THEN "START_RECORD" ELSE "EAT_CRNL"

StartField(p, c) ==
  IF c \in {"\n", EOL}
    THEN [parse_save_field(p) EXCEPT !.state = AfterLineEnd(c)]
  ELSE IF c = "\"" THEN [p EXCEPT !.state = "IN_QUOTED_FIELD"]
  ELSE IF c = "," THEN [parse_save_field(p) EXCEPT !.state = "START_FIELD"]
  ELSE [p EXCEPT !.field = Append(@, c), !.state = "IN_FIELD"]

parse_process_char(p, c) ==
  CASE p.state = "START_RECORD" ->
         IF c = EOL THEN p
         ELSE IF c = "\n" THEN [p EXCEPT !.state = "EAT_CRNL"]
         ELSE StartField(p, c)
    [] p.state = "START_FIELD" -> StartField(p, c)
    [] p.state = "IN_FIELD" ->
         IF c \in {"\n", EOL}
           THEN [parse_save_field(p) EXCEPT !.state = AfterLineEnd(c)]
         ELSE IF c = "," THEN [parse_save_field(p) EXCEPT !.state = "START_FIELD"]
         ELSE [p EXCEPT !.field = Append(@, c)]
    [] p.state = "IN_QUOTED_FIELD" ->
         IF c = EOL THEN p
         ELSE IF c = "\"" THEN [p EXCEPT !.state = "QUOTE_IN_QUOTED_FIELD"]
         ELSE [p EXCEPT !.field = Append(@, c)]
    [] p.state = "QUOTE_IN_QUOTED_FIELD" ->
         IF c = "\"" THEN [p EXCEPT !.field = Append(@, c), !.state = "IN_QUOTED_FIELD"]
         ELSE IF c = "," THEN [parse_save_field(p) EXCEPT !.state = "START_FIELD"]
         ELSE IF c \in {"\n", EOL}
           THEN [parse_save_field(p) EXCEPT !.state = AfterLineEnd(c)]
         ELSE [p EXCEPT !.field = Append(@, c), !.state = "IN_FIELD"]
    [] p.state = "EAT_CRNL" ->
         IF c = "\n" THEN p
         ELSE IF c = EOL THEN [p EXCEPT !.state = "START_RECORD"]
         ELSE [p EXCEPT !.err = TRUE]

\* The characters lo..hi of a line, fed to the parser in order.
RECURSIVE parse_chars(_, _, _, _)
parse_chars(p, line, lo, hi) ==
  IF lo > hi THEN p
  ELSE IF lo = hi THEN parse_process_char(p, line[lo])
  ELSE LET mid == (lo + hi) \div 2 IN
       \* the reader raises at the first error: nothing after it is parsed
       With(parse_chars(p, line, lo, mid),
            LAMBDA q : IF q.err THEN q ELSE parse_chars(q, line, mid + 1, hi))

\* One line, then the end-of-line mark.
parse_line(p, line) ==
  With(parse_chars(p, line, 1, Len(line)), LAMBDA q : parse_process_char(q, EOL))

\* Reader.__next__ from line i on: one record, which may span several lines
\* when a quoted field is left open at a line end.
\* Result: [stop, err, row, next].
RECURSIVE reader_loop(_, _, _)
reader_loop(p, lines, i) ==
  IF i > Len(lines)
    THEN IF p.field # <<>> \/ p.state = "IN_QUOTED_FIELD"
           THEN [stop |-> FALSE, err |-> FALSE, row |-> parse_save_field(p).fields, next |-> i]
           ELSE [stop |-> TRUE, err |-> FALSE, row |-> <<>>, next |-> i]
  ELSE With(parse_line(p, lines[i]), LAMBDA q :
         IF q.err THEN [stop |-> TRUE, err |-> TRUE, row |-> <<>>, next |-> i + 1]
         ELSE IF q.state = "START_RECORD"
           THEN [stop |-> FALSE, err |-> FALSE, row |-> q.fields, next |-> i + 1]
         ELSE reader_loop(q, lines, i + 1))

reader_next(lines, i) == reader_loop(ParseReset, lines, i)

\* All the records the reader yields from line i on: [err, rows].
RECURSIVE reader_rows(_, _, _)
reader_rows(lines, i, acc) ==
  With(reader_next(lines, i), LAMBDA r :
    IF r.err THEN [err |-> TRUE, rows |-> acc]
    ELSE IF r.stop THEN [err |-> FALSE, rows |-> acc]
    ELSE With(Append(acc, r.row), LAMBDA acc1 : reader_rows(lines, r.next, acc1)))

\* SelectSeq with a fixed test: the rows that are not [].
RECURSIVE non_empty_rows(_)
non_empty_rows(rows) ==
  IF rows = <<>> THEN <<>>
  ELSE IF Head(rows) = <<>> THEN non_empty_rows(Tail(rows))
  ELSE <<Head(rows)>> \o non_empty_rows(Tail(rows))

\* csv.DictReader(lines): the first record is the field names, every later
\* record that is not [] is a row. A row is kept as the pair of the field
\* names and its fields; DictGet reads it as the dict DictReader builds.
DictReader(lines) ==
  With(reader_rows(lines, 1, <<>>), LAMBDA all :
    IF all.rows = <<>> THEN [err |-> all.err, rows |-> <<>>]
    ELSE [err |-> all.err,
          rows |-> With(non_empty_rows(Tail(all.rows)), LAMBDA body :
                     [k \in 1..Len(body) |->
                        [names |-> Head(all.rows), fields |-> body[k]]])])

\* dict(zip(fieldnames, row)), then d[None] = row[lf:] when the row is
\* longer, and d[key] = None for the names the row does not reach.
HasRestKey(row) == Len(row.names) < Len(row.fields)

HasKey(row, name) == \E i \in 1..Len(row.names) : row.names[i] = name

IsNoneAt(row, name) ==
  \E i \in 1..Len(row.names) : row.names[i] = name /\ i > Len(row.fields)

LastIndex(row, name) ==
  CHOOSE i \in 1..Len(row.names) :
    /\ row.names[i] = name
    /\ \A j \in 1..Len(row.names) : row.names[j] = name => j <= i

\* d[name] for a key that is present and not None
DictGet(row, name) == row.fields[LastIndex(row, name)]

(***************************************************************************)
(* InvoiceData and the two ways a record set is built                      *)
(***************************************************************************)

F_invoice_id == <<"i", "n", "v", "o", "i", "c", "e", "_", "i", "d">>
F_customer == <<"c", "u", "s", "t", "o", "m", "e", "r">>
F_amount == <<"a", "m", "o", "u", "n", "t">>
F_paid_at == <<"p", "a", "i", "d", "_", "a", "t">>
F_status == <<"s", "t", "a", "t", "u", "s">>

\* The fields of InvoiceData, all required and all str.
InvoiceFields == <<F_invoice_id, F_customer, F_amount, F_paid_at, F_status>>

\* The record of the values given for InvoiceFields, in that order.
MkInvoice(values) ==
  [invoice_id |-> values[1], customer |-> values[2], amount |-> values[3],
   paid_at |-> values[4], status |-> values[5]]

\* InvoiceData(**row): a None key (a row longer than the header) is no
\* keyword, a missing or None field fails validation, other keys are ignored.
RowError(row) ==
  IF HasRestKey(row) THEN "TypeError"
  ELSE IF \E k \in 1..Len(InvoiceFields) :
            ~HasKey(row, InvoiceFields[k]) \/ IsNoneAt(row, InvoiceFields[k])
    THEN "ValidationError"
  ELSE "none"

InvoiceFromRow(row) ==
  MkInvoice([k \in 1..Len(InvoiceFields) |-> DictGet(row, InvoiceFields[k])])

\* InvoiceData(invoice_id=row.get('invoice_id', ''), ...): a missing key
\* reads as '', a None value fails validation.
FileRowError(row) ==
  IF \E k \in 1..Len(InvoiceFields) : IsNoneAt(row, InvoiceFields[k])
    THEN "ValidationError"
  ELSE "none"

InvoiceFromFileRow(row) ==
  MkInvoice([k \in 1..Len(InvoiceFields) |->
               IF HasKey(row, InvoiceFields[k]) THEN DictGet(row, InvoiceFields[k])
               ELSE <<>>])

\* The list a comprehension or loop over the reader builds, or the first
\* exception on the way: [error, invoices].
RECURSIVE build_invoices(_, _, _, _)
build_invoices(rows, k, from_file, acc) ==
  IF k > Len(rows) THEN [error |-> "none", invoices |-> acc]
  ELSE LET e == IF from_file THEN FileRowError(rows[k]) ELSE RowError(rows[k]) IN
       IF e # "none" THEN [error |-> e, invoices |-> acc]
       ELSE With(Append(acc, IF from_file THEN InvoiceFromFileRow(rows[k])
                             ELSE InvoiceFromRow(rows[k])),
                 LAMBDA acc1 : build_invoices(rows, k + 1, from_file, acc1))

ReadInvoices(lines, from_file) ==
  With(DictReader(lines), LAMBDA rd :
    With(build_invoices(rd.rows, 1, from_file, <<>>), LAMBDA built :
      IF built.error # "none" THEN built
      ELSE IF rd.err THEN [error |-> "csv.Error", invoices |-> built.invoices]
      ELSE built))

\* The persisted dataset invoices.csv: [exists, content].
NoFile == [exists |-> FALSE, content |-> <<>>]

load_csv_data(file) ==
  IF ~file.exists THEN [error |-> "none", invoices |-> <<>>]
  ELSE With(file_lines(file.content), LAMBDA lines : ReadInvoices(lines, TRUE))

\* A request body: query and the optional csv_data. [given |-> FALSE] is None.
NoCsv == [given |-> FALSE, text |-> <<>>]
Csv(text) == [given |-> TRUE, text |-> text]

\* `if request.csv_data:` is false for None and for ''.
CsvTruthy(csv_data) == csv_data.given /\ csv_data.text # <<>>

MinCsvLines == 2

TooFewLines(csv_lines) == Len(csv_lines) < MinCsvLines

\* An empty list is falsy: `if not invoices`.
IsEmptyLoad(invoices) == invoices = <<>>

\* The dataset part shared by both handlers: the outcome before the cache
\* key is computed. [status, detail, invoices, csv_content]; status 0 means
\* the handler goes on.
LoadDataset(csv_data, file) ==
  IF CsvTruthy(csv_data)
    THEN With(split_lines(strip(csv_data.text)), LAMBDA csv_lines :
           IF TooFewLines(csv_lines)
             THEN [status |-> 400, detail |-> "Invalid CSV data format",
                   invoices |-> <<>>, csv_content |-> <<>>]
           ELSE With(ReadInvoices(csv_lines, FALSE), LAMBDA r :
                  IF r.error # "none"
                    THEN [status |-> 500, detail |-> r.error,
                          invoices |-> <<>>, csv_content |-> <<>>]
                  ELSE [status |-> 0, detail |-> "", invoices |-> r.invoices,
                        csv_content |-> csv_data.text]))
  ELSE With(load_csv_data(file), LAMBDA r :
         IF r.error # "none"
           THEN [status |-> 500, detail |-> r.error, invoices |-> <<>>, csv_content |-> <<>>]
         ELSE IF IsEmptyLoad(r.invoices)
           THEN [status |-> 404, detail |-> "No invoice data found",
                 invoices |-> <<>>, csv_content |-> <<>>]
         ELSE [status |-> 0, detail |-> "", invoices |-> r.invoices,
               csv_content |-> IF file.exists THEN file.content ELSE <<>>])
(***************************************************************************)
(* Numbers                                                                 *)
(***************************************************************************)

Min(a, b) == IF a < b THEN a ELSE b

Max(a, b) == IF a > b THEN a ELSE b

RECURSIVE Pow2(_)
Pow2(n) == IF n <= 0 THEN 1 ELSE 2 * Pow2(n - 1)

\* 2^0 .. 2^16, indexed from 1.
TwoTo == <<1, 2, 4, 8, 16, 32, 64, 128, 256, 512, 1024, 2048, 4096, 8192, 16384, 32768, 65536>>

DigitValue(c) ==
  CASE c = "0" -> 0 [] c = "1" -> 1 [] c = "2" -> 2 [] c = "3" -> 3 [] c = "4" -> 4
    [] c = "5" -> 5 [] c = "6" -> 6 [] c = "7" -> 7 [] c = "8" -> 8 [] c = "9" -> 9

CountChar(s, c) == Cardinality({i \in 1..Len(s) : s[i] = c})

(***************************************************************************)
(* Python int and float                                                    *)
(***************************************************************************)

\* A natural number of any size: its digits in base LimbBase, the lowest
\* first, without zero digits at the top; <<>> is 0.
LimbBits == 15
LimbBase == 32768

BigTrim(a) ==
  With(a, LAMBDA x :
    IF \A i \in 1..Len(x) : x[i] = 0 THEN <<>>
    ELSE SubSeq(x, 1, CHOOSE i \in 1..Len(x) : x[i] # 0 /\ \A j \in (i + 1)..Len(x) : x[j] = 0))

BigFromInt(n) == BigTrim(<<n % LimbBase, (n \div LimbBase) % LimbBase, n \div (LimbBase * LimbBase)>>)

\* The number as an integer of the model (below 2^31).
BigToInt(a) ==
  With(a, LAMBDA x :
    (IF Len(x) >= 1 THEN x[1] ELSE 0) + (IF Len(x) >= 2 THEN x[2] * LimbBase ELSE 0)
    + (IF Len(x) >= 3 THEN x[3] * LimbBase * LimbBase ELSE 0))

\* a * k + c, for 0 < k < LimbBase and 0 <= c < LimbBase
RECURSIVE BigMulAdd(_, _, _)
BigMulAdd(a, k, c) ==
  With(a, LAMBDA x :
    IF x = <<>> THEN (IF c = 0 THEN <<>> ELSE <<c>>)
    ELSE With(Head(x) * k + c, LAMBDA t :
           <<t % LimbBase>> \o BigMulAdd(Tail(x), k, t \div LimbBase)))

\* a + b + c, for a carry c of 0 or 1
RECURSIVE BigAddCarry(_, _, _)
BigAddCarry(a, b, c) ==
  With(<<a, b>>, LAMBDA v :
    IF v[1] = <<>> /\ v[2] = <<>> THEN (IF c = 0 THEN <<>> ELSE <<c>>)
    ELSE With((IF v[1] = <<>> THEN 0 ELSE Head(v[1])) + (IF v[2] = <<>> THEN 0 ELSE Head(v[2])) + c,
              LAMBDA t :
                <<t % LimbBase>>
                \o BigAddCarry(IF v[1] = <<>> THEN <<>> ELSE Tail(v[1]),
                               IF v[2] = <<>> THEN <<>> ELSE Tail(v[2]), t \div LimbBase)))

BigIsOdd(a) == With(a, LAMBDA x : x # <<>> /\ x[1] % 2 = 1)

\* a < b: fewer digits, or as many and the smaller digit where the two first
\* differ from the top.
BigLess(a, b) ==
  With(<<a, b>>, LAMBDA v :
    \/ Len(v[1]) < Len(v[2])
    \/ /\ Len(v[1]) = Len(v[2])
       /\ \E i \in 1..Len(v[1]) :
            /\ v[1][i] < v[2][i]
            /\ \A j \in (i + 1)..Len(v[1]) : v[1][j] = v[2][j])

\* The digits of a - b - c, for a >= b + c and a borrow c of 0 or 1; zero
\* digits may stay at the top.
RECURSIVE BigSubBorrow(_, _, _)
BigSubBorrow(a, b, c) ==
  With(<<a, b>>, LAMBDA v :
    IF v[1] = <<>> THEN <<>>
    ELSE With(LimbBase + Head(v[1]) - (IF v[2] = <<>> THEN 0 ELSE Head(v[2])) - c, LAMBDA t :
           <<t % LimbBase>>
           \o BigSubBorrow(Tail(v[1]), IF v[2] = <<>> THEN <<>> ELSE Tail(v[2]),
                           1 - (t \div LimbBase))))

\* a divided by d, for 0 < d < LimbBase, from the top digit down:
\* [q, r] with a = q * d + r.
RECURSIVE BigDivStep(_, _, _, _)
BigDivStep(a, i, d, acc) ==
  IF i = 0 THEN [q |-> BigTrim(acc.q), r |-> acc.r]
  ELSE With(acc.r * LimbBase + a[i], LAMBDA t :
         With([q |-> <<t \div d>> \o acc.q, r |-> t % d], LAMBDA acc1 :
           BigDivStep(a, i - 1, d, acc1)))

BigDivMod(a, d) == With(a, LAMBDA x : BigDivStep(x, Len(x), d, [q |-> <<>>, r |-> 0]))

\* The number of binary digits of a.
BitLen(a) ==
  With(a, LAMBDA x :
    IF x = <<>> THEN 0
    ELSE LimbBits * (Len(x) - 1)
         + Cardinality({n \in 1..LimbBits : TwoTo[n] <= x[Len(x)]}))

\* a * 2^n
ShiftLeft(a, n) ==
  With(a, LAMBDA x :
    IF x = <<>> THEN <<>>
    ELSE [i \in 1..(n \div LimbBits) |-> 0] \o BigMulAdd(x, TwoTo[(n % LimbBits) + 1], 0))

\* a \div 2^n
ShiftRight(a, n) ==
  With(a, LAMBDA x :
    IF n \div LimbBits >= Len(x) THEN <<>>
    ELSE BigDivMod(SubSeq(x, n \div LimbBits + 1, Len(x)), TwoTo[(n % LimbBits) + 1]).q)

\* Whether a is a multiple of 2^n.
LowBitsZero(a, n) == With(a, LAMBDA x : ShiftLeft(ShiftRight(x, n), n) = x)

\* The integer nearest to (q2 + f) / 2, where f is a fraction in (0, 1) when
\* `sticky` and 0 otherwise; of two nearest integers the even one.
RoundHalfEven(q2, sticky) ==
  With(<<ShiftRight(q2, 1), BigIsOdd(q2)>>, LAMBDA w :
    IF w[2] /\ (sticky \/ BigIsOdd(w[1])) THEN BigAddCarry(w[1], <<>>, 1) ELSE w[1])

\* A float (IEEE 754 binary64): [neg, m, e] stands for m * 2^e, negated when
\* `neg`, with 2^52 <= m < 2^53, and [FALSE, <<>>, 0] for 0.0. The exponent is
\* not limited: amounts beyond 1.8e308 (inf) or below 2.3e-308 (subnormal) are
\* outside the model, and so is -0.0, which no sum of amounts produces.
MantBits == 53

FloatZero == [neg |-> FALSE, m |-> <<>>, e |-> 0]

\* The float nearest to (n + f) * 2^e for n > 0, negated when `neg`, where f
\* is a fraction in (0, 1) when `sticky` (n then has more than MantBits + 1
\* binary digits) and 0 otherwise.
RoundToFloat(neg, n, e, sticky) ==
  With(<<n, BitLen(n)>>, LAMBDA v :
    IF v[2] <= MantBits
      THEN [neg |-> neg, m |-> ShiftLeft(v[1], MantBits - v[2]), e |-> e - (MantBits - v[2])]
    ELSE With(v[2] - MantBits, LAMBDA drop :
           With(RoundHalfEven(ShiftRight(v[1], drop - 1),
                              sticky \/ ~LowBitsZero(v[1], drop - 1)), LAMBDA m :
             IF BitLen(m) > MantBits
               THEN [neg |-> neg, m |-> ShiftRight(m, 1), e |-> e + drop + 1]
             ELSE [neg |-> neg, m |-> m, e |-> e + drop])))

\* int -> float
IntToFloat(n) == IF n = 0 THEN FloatZero ELSE RoundToFloat(FALSE, BigFromInt(n), 0, FALSE)

\* The digits of s read as a decimal number.
RECURSIVE BigFromDigits(_, _, _)
BigFromDigits(s, k, acc) ==
  IF k > Len(s) THEN acc
  ELSE With(BigMulAdd(acc, 10, DigitValue(s[k])), LAMBDA acc1 : BigFromDigits(s, k + 1, acc1))

\* n \div 10^f, and whether anything was cut off: [q, sticky].
RECURSIVE DivPow10(_, _, _)
DivPow10(n, f, sticky) ==
  IF f = 0 THEN [q |-> n, sticky |-> sticky]
  ELSE With(BigDivMod(n, 10), LAMBDA d : DivPow10(d.q, f - 1, sticky \/ d.r # 0))

\* float(s) for s made of digits and at most one point: the float nearest to
\* the decimal number.
float(s) ==
  With(s, LAMBDA a :
    With(<<BigFromDigits(remove_char(a, "."), 1, <<>>),
           IF CountChar(a, ".") = 0 THEN 0
           ELSE Len(a) - (CHOOSE i \in 1..Len(a) : a[i] = ".")>>, LAMBDA v :
      IF v[1] = <<>> THEN FloatZero
      ELSE IF v[2] = 0 THEN RoundToFloat(FALSE, v[1], 0, FALSE)
      ELSE With(MantBits + 2 + 4 * v[2], LAMBDA s2 :
             With(DivPow10(ShiftLeft(v[1], s2), v[2], FALSE), LAMBDA d :
               RoundToFloat(FALSE, d.q, -s2, d.sticky)))))

\* x + y. A term too small to reach the rounding of the other (more than
\* MantBits + 1 binary places below it) leaves the other as it is; otherwise
\* the exact sum of the two, or the exact difference of the magnitudes with
\* the sign of the greater, is rounded once.
FloatAdd(x, y) ==
  With(<<x, y>>, LAMBDA v :
    IF v[2].m = <<>> THEN v[1]
    ELSE IF v[1].m = <<>> THEN v[2]
    ELSE IF v[2].e - v[1].e > MantBits + 1 THEN v[2]
    ELSE IF v[1].e - v[2].e > MantBits + 1 THEN v[1]
    ELSE With(Min(v[1].e, v[2].e), LAMBDA e :
           With(<<ShiftLeft(v[1].m, v[1].e - e), ShiftLeft(v[2].m, v[2].e - e)>>, LAMBDA w :
             IF v[1].neg = v[2].neg
               THEN RoundToFloat(v[1].neg, BigAddCarry(w[1], w[2], 0), e, FALSE)
             ELSE IF w[1] = w[2] THEN FloatZero
             ELSE IF BigLess(w[1], w[2])
               THEN RoundToFloat(v[2].neg, BigTrim(BigSubBorrow(w[2], w[1], 0)), e, FALSE)
             ELSE RoundToFloat(v[1].neg, BigTrim(BigSubBorrow(w[1], w[2], 0)), e, FALSE))))

\* x - y
FloatSub(x, y) ==
  FloatAdd(x, With(y, LAMBDA v : IF v.m = <<>> THEN v ELSE [v EXCEPT !.neg = ~v.neg]))

\* x / n for an int 0 < n < LimbBase
FloatDivInt(x, n) ==
  With(x, LAMBDA v :
    IF v.m = <<>> THEN FloatZero
    ELSE With(BigDivMod(ShiftLeft(v.m, LimbBits + 2), n), LAMBDA d :
           RoundToFloat(v.neg, d.q, v.e - (LimbBits + 2), d.r # 0)))

\* x * k for an int 0 < k < LimbBase
FloatMulInt(x, k) ==
  With(x, LAMBDA v :
    IF v.m = <<>> THEN FloatZero ELSE RoundToFloat(v.neg, BigMulAdd(v.m, k, 0), v.e, FALSE))

\* x > y. Of two floats of one sign the magnitudes decide: the greater
\* exponent, or with equal exponents the greater mantissa (both have MantBits
\* binary digits).
FloatGreater(x, y) ==
  LET MagGreater(a, b) ==
        IF a.m = <<>> THEN FALSE
        ELSE IF b.m = <<>> THEN TRUE
        ELSE a.e > b.e \/ (a.e = b.e /\ BigLess(b.m, a.m)) IN
  With(<<x, y>>, LAMBDA v :
    IF v[1].neg # v[2].neg THEN v[2].neg
    ELSE IF v[1].neg THEN MagGreater(v[2], v[1])
    ELSE MagGreater(v[1], v[2]))

\* f"{x:.2f}" and f"{x:.1f}" as the number of hundredths (scale 100) or
\* tenths (scale 10) printed: x * scale rounded to the nearest integer, of
\* two nearest the even one. (A negative x that prints as -0.00 gives 0.)
FormatFixed(x, scale) ==
  With(x, LAMBDA v :
    IF v.m = <<>> THEN 0
    ELSE With(BigMulAdd(v.m, scale, 0), LAMBDA p :
           (IF v.neg THEN -1 ELSE 1)
           * (IF v.e >= 0 THEN BigToInt(ShiftLeft(p, v.e))
              ELSE BigToInt(RoundHalfEven(ShiftRight(p, -v.e - 1),
                                          ~LowBitsZero(p, -v.e - 1))))))

(***************************************************************************)
(* The heuristic analyzer, analyze_with_transformers                       *)
(***************************************************************************)

\* inv.amount.replace('.','').isdigit(): the amounts that are summed.
AmountCounts(amount) == isdigit(remove_char(amount, "."))

\* float() of digits and dots raises ValueError when there are two dots.
FloatRaises(amount) == CountChar(amount, ".") > 1

\* Amounts are printed with {:,.2f}, as hundredths, and the rate and the
\* invoices per customer with {:.1f}, as tenths.
CentsPerUnit == 100
TenthsPerUnit == 10

\* One float x taken by sum(), whose state is the total f and the
\* compensation c. How sum() adds is the interpreter's choice, and the
\* repository names no interpreter. CPython up to 3.11 adds x to f, the
\* addition rounded, and has no c. CPython from 3.12 on (`compensated`) also
\* keeps in c what the roundings lost (Neumaier's summation): with
\* t = f + x, c grows by (f - t) + x when fabs(f) >= fabs(x) and by
\* (x - t) + f otherwise.
SumStep(acc, x, compensated) ==
  With(<<acc, x, FloatAdd(acc.f, x)>>, LAMBDA v :
    [f |-> v[3],
     c |-> IF ~compensated THEN FloatZero
           ELSE IF ~FloatGreater([v[2] EXCEPT !.neg = FALSE], [v[1].f EXCEPT !.neg = FALSE])
             THEN FloatAdd(v[1].c, FloatAdd(FloatSub(v[1].f, v[3]), v[2]))
           ELSE FloatAdd(v[1].c, FloatAdd(FloatSub(v[2], v[3]), v[1].f))])

\* line 108: sum(float(inv.amount) for inv in invoices if ...). sum() starts
\* from 0 and takes one amount after the other, from the first record on; a
\* compensation that is not zero is added to the total at the end.
RECURSIVE SumAmounts(_, _, _, _)
SumAmounts(invoices, k, acc, compensated) ==
  IF k > Len(invoices)
    THEN (IF acc.c.m # <<>> THEN FloatAdd(acc.f, acc.c) ELSE acc.f)
  ELSE With(IF AmountCounts(invoices[k].amount)
              THEN SumStep(acc, float(invoices[k].amount), compensated) ELSE acc,
            LAMBDA acc1 : SumAmounts(invoices, k + 1, acc1, compensated))

StatusCount(invoices, word) ==
  Cardinality({k \in 1..Len(invoices) : lower(invoices[k].status) = word})

CustomerSet(invoices) == {invoices[k].customer : k \in 1..Len(invoices)}

RevenueWords == {<<"t", "o", "t", "a", "l">>, <<"r", "e", "v", "e", "n", "u", "e">>, <<"a", "m", "o", "u", "n", "t">>, <<"s", "u", "m">>}
CustomerWords == {<<"c", "u", "s", "t", "o", "m", "e", "r">>, <<"c", "l", "i", "e", "n", "t">>, <<"w", "h", "o">>}
StatusWords == {<<"s", "t", "a", "t", "u", "s">>, <<"p", "a", "i", "d">>, <<"p", "a", "y", "m", "e", "n", "t">>}
CountWords == {<<"c", "o", "u", "n", "t">>, <<"h", "o", "w", " ", "m", "a", "n", "y">>, <<"n", "u", "m", "b", "e", "r">>}

AnyWord(words, query_lower) == \E w \in words : contains(query_lower, w)

\* The chain applied to the query as written, without lower().
ClassifyCaseSensitive(query) ==
  IF AnyWord(RevenueWords, query) THEN "revenue"
  ELSE IF AnyWord(CustomerWords, query) THEN "customer"
  ELSE IF AnyWord(StatusWords, query) THEN "status"
  ELSE IF AnyWord(CountWords, query) THEN "count"
  ELSE "overview"

\* The if/elif chain of lines 118-141.
Classify(query) ==
  LET q == lower(query) IN
  IF AnyWord(RevenueWords, q) THEN "revenue"
  ELSE IF AnyWord(CustomerWords, q) THEN "customer"
  ELSE IF AnyWord(StatusWords, q) THEN "status"
  ELSE IF AnyWord(CountWords, q) THEN "count"
  ELSE "overview"

\* lines 122-127: the dict top_customers as its items [name, amount], in the
\* order the customers first occur. The customer of record k enters the dict
\* with 0 when it is new, and an amount that counts is added to the
\* customer's sum.
RECURSIVE top_customers(_, _, _)
top_customers(invoices, k, items) ==
  IF k > Len(invoices) THEN items
  ELSE With(IF \E j \in 1..Len(items) : items[j].name = invoices[k].customer THEN items
            ELSE Append(items, [name |-> invoices[k].customer, amount |-> FloatZero]),
            LAMBDA d :
         IF ~AmountCounts(invoices[k].amount) THEN top_customers(invoices, k + 1, d)
         ELSE With(float(invoices[k].amount), LAMBDA a :
                With(SubSeq([j \in 1..Len(d) |->
                               IF d[j].name = invoices[k].customer
                                 THEN [name |-> d[j].name, amount |-> FloatAdd(d[j].amount, a)]
                               ELSE d[j]], 1, Len(d)),
                     LAMBDA items1 : top_customers(invoices, k + 1, items1))))

\* sorted(items, key=amount, reverse=True): stable, an item goes behind the
\* items whose amount is not smaller.
RECURSIVE InsertDesc(_, _)
InsertDesc(sorted, item) ==
  IF sorted = <<>> THEN <<item>>
  ELSE IF ~FloatGreater(item.amount, Head(sorted).amount)
    THEN With(Tail(sorted), LAMBDA rest : <<Head(sorted)>> \o InsertDesc(rest, item))
  ELSE <<item>> \o sorted

RECURSIVE SortDesc(_, _, _)
SortDesc(items, k, acc) ==
  IF k > Len(items) THEN acc
  ELSE With(InsertDesc(acc, items[k]), LAMBDA acc1 : SortDesc(items, k + 1, acc1))

TopN == 5

\* lines 128-132: the first TopN items of the sorted dict, each with its
\* amount as it is printed.
TopCustomers(invoices) ==
  With(top_customers(invoices, 1, <<>>), LAMBDA items :
    With(SortDesc(items, 1, <<>>), LAMBDA sorted :
      SubSeq([j \in 1..Min(TopN, Len(sorted)) |->
                [name |-> sorted[j].name,
                 amount |-> FormatFixed(sorted[j].amount, CentsPerUnit)]],
             1, Min(TopN, Len(sorted)))))

AmountRaises(invoices) ==
  \E k \in 1..Len(invoices) :
    AmountCounts(invoices[k].amount) /\ FloatRaises(invoices[k].amount)

\* The denominator the selected branch divides by (1 where it divides by
\* nothing).
Divisor(branch, invoices) ==
  CASE branch \in {"revenue", "status", "overview"} -> Len(invoices)
    [] branch = "count" -> Cardinality(CustomerSet(invoices))
    [] branch = "customer" -> 1

\* ${total_amount:,.2f} and ${total_amount/total_invoices:,.2f} of lines 119,
\* 136 and 143: [total_amount, average] as printed.
PrintedTotals(invoices, compensated) ==
  With(SumAmounts(invoices, 1, [f |-> FloatZero, c |-> FloatZero], compensated),
       LAMBDA total_amount :
    [total_amount |-> FormatFixed(total_amount, CentsPerUnit),
     average |-> FormatFixed(FloatDivInt(total_amount, Len(invoices)), CentsPerUnit)])

\* {(paid_count + partial_count)/total_invoices*100:.1f} of line 136
PrintedRate(count, total_invoices) ==
  FormatFixed(FloatMulInt(FloatDivInt(IntToFloat(count), total_invoices), 100), TenthsPerUnit)

\* {total_invoices/len(customers):.1f} of line 139
PrintedPerCustomer(total_invoices, customers) ==
  FormatFixed(FloatDivInt(IntToFloat(total_invoices), customers), TenthsPerUnit)

\* The text the function returns, as the numbers it prints, or the exception
\* it raises: [error, text]. `compensated` is how the interpreter's sum() adds
\* floats. The availability checks of lines 99-104 are made by the caller
\* below.
analyze_with_transformers(query, invoices, compensated) ==
  LET total_invoices == Len(invoices)
      paid_count == StatusCount(invoices, <<"p", "a", "i", "d">>)
      partial_count ==
        StatusCount(invoices, <<"p", "a", "r", "t", "i", "a", "l", "l", "y", " ", "p", "a", "i", "d">>)
      customers == Cardinality(CustomerSet(invoices)) IN
  With(Classify(query), LAMBDA branch :
    IF AmountRaises(invoices) THEN [error |-> "ValueError", text |-> [branch |-> branch]]
    ELSE IF Divisor(branch, invoices) = 0
      THEN [error |-> "ZeroDivisionError", text |-> [branch |-> branch]]
    ELSE [error |-> "none", text |->
      CASE branch = "revenue" ->
             With(PrintedTotals(invoices, compensated), LAMBDA p :
               [branch |-> branch, total_invoices |-> total_invoices,
                total_amount |-> p.total_amount, paid |-> paid_count,
                partial |-> partial_count, average |-> p.average])
        [] branch = "customer" ->
             [branch |-> branch, customers |-> customers, top |-> TopCustomers(invoices)]
        [] branch = "status" ->
             [branch |-> branch, paid |-> paid_count, partial |-> partial_count,
              rate_tenths |-> PrintedRate(paid_count + partial_count, total_invoices),
              total_amount |-> PrintedTotals(invoices, compensated).total_amount]
        [] branch = "count" ->
             [branch |-> branch, total_invoices |-> total_invoices, customers |-> customers,
              paid |-> paid_count, partial |-> partial_count,
              per_customer_tenths |-> PrintedPerCustomer(total_invoices, customers)]
        [] branch = "overview" ->
             With(PrintedTotals(invoices, compensated), LAMBDA p :
               [branch |-> branch, total_invoices |-> total_invoices,
                total_amount |-> p.total_amount, customers |-> customers,
                paid |-> paid_count, partial |-> partial_count, average |-> p.average])])

(***************************************************************************)
(* The inputs of the model                                                 *)
(***************************************************************************)

HeaderLine == <<"i", "n", "v", "o", "i", "c", "e", "_", "i", "d", ",", "c", "u", "s", "t", "o", "m", "e", "r", ",", "a", "m", "o", "u", "n", "t", ",", "p", "a", "i", "d", "_", "a", "t", ",", "s", "t", "a", "t", "u", "s">>

\* Two records, as in the revenue scenario.
GoodCsv == HeaderLine \o <<"\n", "1", ",", "A", ",", "1", "0", "0", ",", "d", ",", "P", "a", "i", "d", "\n", "2", ",", "B", ",", "5", "0", ",", "d", ",", "P", "a", "r", "t", "i", "a", "l", "l", "y", " ", "P", "a", "i", "d", "\n">>

\* A header and no row.
HeaderOnlyCsv == HeaderLine

\* Two lines, but the quote opened in the header is never closed, so the
\* reader takes both lines as the one header record.
OpenQuoteCsv == <<"i", "n", "v", "o", "i", "c", "e", "_", "i", "d", ",", "c", "u", "s", "t", "o", "m", "e", "r", ",", "a", "m", "o", "u", "n", "t", ",", "p", "a", "i", "d", "_", "a", "t", ",", "\"", "s", "t", "a", "t", "u", "s", "\n", "1", ",", "A", ",", "1", "0", "0", ",", "d", ",", "P", "a", "i", "d">>

Q_sum == <<"s", "u", "m">>
Q_who == <<"w", "h", "o">>

Queries == {Q_sum, Q_who}
InlineDatasets == {NoCsv, Csv(GoodCsv), Csv(HeaderOnlyCsv), Csv(OpenQuoteCsv)}
Files == {NoFile, [exists |-> TRUE, content |-> GoodCsv]}
Requests == [query : Queries, csv_data : InlineDatasets]

\* What a provider may answer.
ProviderTexts == {"t1", "t2"}

\* The number of analyze requests one behaviour serves.
MaxRequests == 2

\* The queries and dataset texts get_cache_key is applied to on its own: the
\* strings of at most MaxKeyLen characters over KeyAlphabet.
MaxKeyLen == 2
KeyAlphabet == {"a", ":"}
KeyStrings == UNION {[1..n -> KeyAlphabet] : n \in 0..MaxKeyLen}
KeyPairs == [query : KeyStrings, csv_data : KeyStrings]

\* A dataset with an unnamed first column, and the same dataset with the
\* first column named "sum:"; the query "who:sum" with the first and the
\* query "who" with the second give the same text to hash.
LeadCsv ==
  <<",">> \o HeaderLine
  \o <<"\n", ",", "1", ",", "A", ",", "1", "0", "0", ",", "d", ",", "P", "a", "i", "d">>
SumLeadCsv == Q_sum \o <<":">> \o LeadCsv
Q_who_sum == Q_who \o <<":">> \o Q_sum

\* Three records whose amounts the two ways of adding sum to different cents.
SumCsv ==
  HeaderLine
  \o <<"\n", "1", ",", "A", ",", "0", ".", "7", "9", "5", ",", "d", ",", "P", "a", "i", "d", "\n", "2", ",", "A", ",", "0", ".", "8", "3", "9", ",", "d", ",", "P", "a", "i", "d", "\n", "3", ",", "A", ",", "0", ".", "0", "0", "1", ",", "d", ",", "P", "a", "i", "d">>

\* The requests of the heuristic path with inline datasets.
FreeRequests ==
  [query : {Q_who, Q_who_sum, Q_sum},
   csv_data : {Csv(LeadCsv), Csv(SumLeadCsv), Csv(GoodCsv), Csv(SumCsv)}]

\* The sequences over S of at most n elements.
SeqsUpTo(S, n) == UNION {[1..k -> S] : k \in 0..n}

\* A record of `customer` with `amount`; the analyzer reads nothing else but
\* the status.
Inv(customer, amount) ==
  [invoice_id |-> <<"1">>, customer |-> customer, amount |-> amount,
   paid_at |-> <<"d">>, status |-> <<"P", "a", "i", "d">>]

Q_paid == <<"p", "a", "i", "d">>
Q_count == <<"c", "o", "u", "n", "t">>
Q_hello == <<"h", "e", "l", "l", "o">>

\* One query for each branch of the analyzer.
BranchQueries == {Q_sum, Q_who, Q_paid, Q_count, Q_hello}

\* Amount strings: "abc", "", "-5", ".", "1.2.3", "100", "2.5".
AmountTexts ==
  {<<"a", "b", "c">>, <<>>, <<"-", "5">>, <<".">>, <<"1", ".", "2", ".", "3">>,
   <<"1", "0", "0">>, <<"2", ".", "5">>}

\* The analyzer applied to record sets of at most MaxAmountRecords records
\* with these amounts.
MaxAmountRecords == 2

AmountArgs ==
  [fn : {"analyze_with_transformers"}, family : {"amounts"}, query : BranchQueries,
   invoices : SeqsUpTo({Inv(<<c>>, a) : c \in {"A", "B"}, a \in AmountTexts},
                       MaxAmountRecords) \ {<<>>}]

\* The customer ranking applied to record sets of at most MaxRankRecords
\* records with amount 1 or 2. A customer new to the record set takes the
\* next unused letter, so the sets differ in which records share a customer,
\* not in the customers' names.
MaxRankRecords == 6

RankAmounts == {<<"1">>, <<"2">>}

CustomersUsed(invoices) == Cardinality({invoices[k].customer : k \in 1..Len(invoices)})

RECURSIVE RankSets(_)
RankSets(n) ==
  IF n = 0 THEN {<<>>}
  ELSE With(RankSets(n - 1), LAMBDA shorter :
         shorter \cup
         {Append(t[1], Inv(<<UpperCase[t[2]]>>, t[3])) :
            t \in {u \in {x \in shorter : Len(x) = n - 1} \X (1..n) \X RankAmounts :
                     u[2] <= CustomersUsed(u[1]) + 1}})

RankArgs ==
  [fn : {"analyze_with_transformers"}, family : {"ranking"}, query : {Q_who},
   invoices : RankSets(MaxRankRecords)]

\* The customer ranking applied to record sets of at most MaxDecimalRecords
\* records of two customers with the amounts 0.1, 0.2 and 0.3.
MaxDecimalRecords == 3

DecimalAmounts == {<<"0", ".", "1">>, <<"0", ".", "2">>, <<"0", ".", "3">>}

DecimalRankArgs ==
  [fn : {"analyze_with_transformers"}, family : {"ranking"}, query : {Q_who},
   invoices : SeqsUpTo({Inv(<<c>>, a) : c \in {"A", "B"}, a \in DecimalAmounts},
                       MaxDecimalRecords) \ {<<>>}]

\* The analyzer's totals for record sets of at most MaxSumRecords records
\* with the amounts 0.795, 0.839 and 0.001: added in this order, the rounded
\* additions give 1.6349999999999998 and the compensated sum gives 1.635.
MaxSumRecords == 3

SumAmountTexts ==
  {<<"0", ".", "7", "9", "5">>, <<"0", ".", "8", "3", "9">>, <<"0", ".", "0", "0", "1">>}

SumArgs ==
  [fn : {"analyze_with_transformers"}, family : {"sums"}, query : {Q_sum, Q_paid, Q_hello},
   invoices : SeqsUpTo({Inv(<<"A">>, a) : a \in SumAmountTexts}, MaxSumRecords) \ {<<>>}]

\* The queries made of at most MaxPieces of these pieces, in any order:
\* keywords of the four categories in upper, mixed and lower case, and a
\* letter that belongs to none.
MaxPieces == 3

QueryPieces ==
  {<<"S", "U", "M">>, <<"W", "h", "o">>, <<"p", "a", "i", "d">>,
   <<"c", "o", "u", "n", "t">>, <<"x">>}

RECURSIVE Concat(_)
Concat(pieces) == IF pieces = <<>> THEN <<>> ELSE Head(pieces) \o Concat(Tail(pieces))

PieceQueries == {Concat(pieces) : pieces \in SeqsUpTo(QueryPieces, MaxPieces)}

ClassifyArgs ==
  [fn : {"analyze_with_transformers"}, family : {"classify"}, query : PieceQueries,
   invoices : {<<Inv(<<"A">>, <<"1">>)>>}]

\* The prompt built for record sets of at most MaxPromptRecords records, each
\* one of two records.
MaxPromptRecords == 12

PromptArgs ==
  [fn : {"BuildPrompt"}, family : {"prompt"}, query : {Q_sum},
   invoices : SeqsUpTo({Inv(<<"A">>, <<"1">>), Inv(<<"B">>, <<"2">>)}, MaxPromptRecords)]

(***************************************************************************)
(* hashlib.sha256 (FIPS 180-4)                                             *)
(***************************************************************************)

\* str.encode(): the texts of the model are ASCII, one byte per character.
\* The characters of codes 32 to 95 and 97 to 126.
Printable ==
  <<" ", "!", "\"", "#", "$", "%", "&", "'", "(", ")", "*", "+", ",", "-", ".", "/",
    "0", "1", "2", "3", "4", "5", "6", "7", "8", "9", ":", ";", "<", "=", ">", "?",
    "@", "A", "B", "C", "D", "E", "F", "G", "H", "I", "J", "K", "L", "M", "N", "O",
    "P", "Q", "R", "S", "T", "U", "V", "W", "X", "Y", "Z", "[", "\\", "]", "^", "_">>

LowerPrintable ==
  <<"a", "b", "c", "d", "e", "f", "g", "h", "i", "j", "k", "l", "m", "n", "o", "p",
    "q", "r", "s", "t", "u", "v", "w", "x", "y", "z", "{", "|", "}", "~">>

encode(s) ==
  LET ord(c) ==
        IF c = "\n" THEN 10
        ELSE IF c = "\t" THEN 9
        ELSE IF \E i \in 1..Len(Printable) : Printable[i] = c
          THEN 31 + (CHOOSE i \in 1..Len(Printable) : Printable[i] = c)
        ELSE 96 + (CHOOSE i \in 1..Len(LowerPrintable) : LowerPrintable[i] = c) IN
  The({SubSeq([i \in 1..Len(x) |-> ord(x[i])], 1, Len(x)) : x \in {s}})

\* A 32-bit word is kept as <<its high 16 bits, its low 16 bits>>.
HalfBase == 65536

\* Exclusive or and conjunction of two 4-bit numbers, bit by bit, as tables
\* indexed from 1.
NibbleXor ==
  SubSeq([i \in 1..16 |-> SubSeq([j \in 1..16 |->
    LET a == i - 1
        b == j - 1 IN
    ((a + b) % 2) + 2 * (((a \div 2) + (b \div 2)) % 2)
    + 4 * (((a \div 4) + (b \div 4)) % 2) + 8 * (((a \div 8) + (b \div 8)) % 2)], 1, 16)], 1, 16)

NibbleAnd ==
  SubSeq([i \in 1..16 |-> SubSeq([j \in 1..16 |->
    LET a == i - 1
        b == j - 1 IN
    ((a % 2) * (b % 2)) + 2 * (((a \div 2) % 2) * ((b \div 2) % 2))
    + 4 * (((a \div 4) % 2) * ((b \div 4) % 2)) + 8 * ((a \div 8) * (b \div 8))], 1, 16)], 1, 16)

\* The operation of the table on two 16-bit numbers, four bits at a time.
Bitwise16(table, x, y) ==
  table[(x % 16) + 1][(y % 16) + 1]
  + 16 * table[((x \div 16) % 16) + 1][((y \div 16) % 16) + 1]
  + 256 * table[((x \div 256) % 16) + 1][((y \div 256) % 16) + 1]
  + 4096 * table[(x \div 4096) + 1][(y \div 4096) + 1]

Xor32(x, y) ==
  The({<<Bitwise16(NibbleXor, v[1][1], v[2][1]), Bitwise16(NibbleXor, v[1][2], v[2][2])>>
      : v \in {<<x, y>>}})

And32(x, y) ==
  The({<<Bitwise16(NibbleAnd, v[1][1], v[2][1]), Bitwise16(NibbleAnd, v[1][2], v[2][2])>>
      : v \in {<<x, y>>}})

\* x + y mod 2^32
Add32(x, y) ==
  The({The({<<(v[1][1] + v[2][1] + (lo \div HalfBase)) % HalfBase, lo % HalfBase>>
      : lo \in {v[1][2] + v[2][2]}})
      : v \in {<<x, y>>}})

\* x rotated right by n bits, 0 < n < 32
RotR(x, n) ==
  The({<<(v[1][1] \div TwoTo[v[2] + 1]) + (v[1][2] % TwoTo[v[2] + 1]) * TwoTo[17 - v[2]],
         (v[1][2] \div TwoTo[v[2] + 1]) + (v[1][1] % TwoTo[v[2] + 1]) * TwoTo[17 - v[2]]>>
      : v \in {IF n < 16 THEN <<x, n>> ELSE <<<<x[2], x[1]>>, n - 16>>}})

\* x shifted right by n bits, 0 < n < 16
ShR(x, n) ==
  The({<<v[1] \div TwoTo[n + 1], (v[2] \div TwoTo[n + 1]) + (v[1] % TwoTo[n + 1]) * TwoTo[17 - n]>>
      : v \in {x}})

\* (x and y) xor ((not x) and z)
Ch(x, y, z) ==
  The({Xor32(And32(v, y), And32(<<HalfBase - 1 - v[1], HalfBase - 1 - v[2]>>, z)) : v \in {x}})
Maj(x, y, z) ==
  The({Xor32(Xor32(And32(v[1], v[2]), And32(v[1], v[3])), And32(v[2], v[3]))
      : v \in {<<x, y, z>>}})
BigSigma0(x) == The({Xor32(Xor32(RotR(v, 2), RotR(v, 13)), RotR(v, 22)) : v \in {x}})
BigSigma1(x) == The({Xor32(Xor32(RotR(v, 6), RotR(v, 11)), RotR(v, 25)) : v \in {x}})
SmallSigma0(x) == The({Xor32(Xor32(RotR(v, 7), RotR(v, 18)), ShR(v, 3)) : v \in {x}})
SmallSigma1(x) == The({Xor32(Xor32(RotR(v, 17), RotR(v, 19)), ShR(v, 10)) : v \in {x}})

InitialHash ==
  <<<<27145, 58983>>, <<47975, 44677>>, <<15470, 62322>>, <<42319, 62778>>,
    <<20750, 21119>>, <<39685, 26764>>, <<8067, 55723>>, <<23520, 52505>>>>

RoundConstants ==
  <<<<17034, 12184>>, <<28983, 17553>>, <<46528, 64463>>, <<59829, 56229>>,
    <<14678, 49755>>, <<23025, 4593>>, <<37439, 33444>>, <<43804, 24277>>,
    <<55303, 43672>>, <<4739, 23297>>, <<9265, 34238>>, <<21772, 32195>>,
    <<29374, 23924>>, <<32990, 45566>>, <<39900, 1703>>, <<49563, 61812>>,
    <<58523, 27073>>, <<61374, 18310>>, <<4033, 40390>>, <<9228, 41420>>,
    <<11753, 11375>>, <<19060, 33962>>, <<23728, 43484>>, <<30457, 35034>>,
    <<38974, 20818>>, <<43057, 50797>>, <<45059, 10184>>, <<48985, 32711>>,
    <<50912, 3059>>, <<54695, 37191>>, <<1738, 25425>>, <<5161, 10599>>,
    <<10167, 2693>>, <<11803, 8504>>, <<19756, 28156>>, <<21304, 3347>>,
    <<25866, 29524>>, <<30314, 2747>>, <<33218, 51502>>, <<37490, 11397>>,
    <<41663, 59553>>, <<43034, 26187>>, <<49739, 35696>>, <<51052, 20899>>,
    <<53650, 59417>>, <<54937, 1572>>, <<62478, 13701>>, <<4202, 41072>>,
    <<6564, 49430>>, <<7735, 27656>>, <<10056, 30540>>, <<13488, 48309>>,
    <<14620, 3251>>, <<20184, 43594>>, <<23452, 51791>>, <<26670, 28659>>,
    <<29839, 33518>>, <<30885, 25455>>, <<33992, 30740>>, <<36039, 520>>,
    <<37054, 65530>>, <<42064, 27883>>, <<48889, 41975>>, <<50801, 30962>>>>

\* The message with the 1 bit, the zero bytes and its length in bits as 8
\* bytes appended (lengths below 2^28 bytes).
Pad(bytes) ==
  The({b \o <<128>> \o [i \in 1..((55 - Len(b)) % 64) |-> 0] \o <<0, 0, 0, 0>>
    \o <<(8 * Len(b)) \div 16777216, ((8 * Len(b)) \div 65536) % 256,
         ((8 * Len(b)) \div 256) % 256, (8 * Len(b)) % 256>> : b \in {bytes}})

\* The 16 words of the block that starts after `at` bytes.
BlockWords(p, at) ==
  SubSeq([t \in 1..16 |->
            <<p[at + 4 * t - 3] * 256 + p[at + 4 * t - 2],
              p[at + 4 * t - 1] * 256 + p[at + 4 * t]>>], 1, 16)

\* The message schedule: words from..to appended to the words so far, one
\* after the other.
RECURSIVE ScheduleWords(_, _, _)
ScheduleWords(w, from, to) ==
  IF from = to
    THEN The({Append(w0, Add32(Add32(Add32(SmallSigma1(w0[from - 2]), w0[from - 7]),
                                     SmallSigma0(w0[from - 15])), w0[from - 16]))
             : w0 \in {w}})
  ELSE The({ScheduleWords(w1, (from + to) \div 2 + 1, to)
           : w1 \in {ScheduleWords(w, from, (from + to) \div 2)}})

\* Rounds from..to on the working variables s = <<a, b, c, d, e, f, g, h>>,
\* one after the other.
RECURSIVE Rounds(_, _, _, _)
Rounds(s, w, from, to) ==
  IF from = to
    THEN The({The({<<Add32(t1, Add32(BigSigma0(s0[1]), Maj(s0[1], s0[2], s0[3]))),
                     s0[1], s0[2], s0[3], Add32(s0[4], t1), s0[5], s0[6], s0[7]>>
                  : t1 \in {Add32(Add32(Add32(Add32(s0[8], BigSigma1(s0[5])),
                                               Ch(s0[5], s0[6], s0[7])),
                                         RoundConstants[from]), w[from])}})
             : s0 \in {s}})
  ELSE The({Rounds(s1, w, (from + to) \div 2 + 1, to)
           : s1 \in {Rounds(s, w, from, (from + to) \div 2)}})

\* One block: the 64 words of the schedule from the 16 of the block, the 64
\* rounds, and the sum with the hash so far.
Compress(h, block) ==
  The({The({SubSeq([i \in 1..8 |-> Add32(v[1][i], s[i])], 1, 8)
      : s \in {Rounds(v[1], v[2], 1, 64)}})
      : v \in {<<h, ScheduleWords(block, 17, 64)>>}})

RECURSIVE HashBlocks(_, _, _)
HashBlocks(h, p, at) ==
  IF at >= Len(p) THEN h
  ELSE The({HashBlocks(h1, p, at + 64) : h1 \in {Compress(h, BlockWords(p, at))}})

\* A 16-bit number as 4 hex characters.
Hex16(x) ==
  LET HexDigits == <<"0", "1", "2", "3", "4", "5", "6", "7",
                     "8", "9", "a", "b", "c", "d", "e", "f">> IN
  <<HexDigits[(x \div 4096) + 1], HexDigits[((x \div 256) % 16) + 1],
    HexDigits[((x \div 16) % 16) + 1], HexDigits[(x % 16) + 1]>>

RECURSIVE HexWords(_, _)
HexWords(h, i) ==
  IF i > Len(h) THEN <<>> ELSE Hex16(h[i][1]) \o Hex16(h[i][2]) \o HexWords(h, i + 1)

\* The digest of the text as 64 hex characters.
Sha256(content) ==
  The({The({HexWords(h, 1)
      : h \in {HashBlocks(InitialHash, p, 0)}})
      : p \in {Pad(encode(content))}})

(***************************************************************************)
(* The cache key                                                           *)
(***************************************************************************)

\* f"{query}:{csv_data}"
KeyContent(query, csv_data) == query \o <<":">> \o csv_data

\* The texts the requests of the model give to hash, and their digests,
\* computed once.
HashedTexts ==
  {KeyContent(q, t) :
     q \in {r.query : r \in Requests \cup FreeRequests},
     t \in {r.csv_data.text : r \in Requests \cup FreeRequests}
           \cup {f.content : f \in Files}}
  \cup {KeyContent(p.query, p.csv_data) : p \in KeyPairs}

KnownDigests == {<<content, Sha256(content)>> : content \in HashedTexts}

\* hashlib.sha256(content.encode()).hexdigest(): HexLen hex characters.
HexLen == 64

sha256_hexdigest(content) ==
  The({IF \E p \in KnownDigests : p[1] = c
         THEN (CHOOSE p \in KnownDigests : p[1] = c)[2]
       ELSE Sha256(c) : c \in {content}})

get_cache_key(query, csv_data) == sha256_hexdigest(KeyContent(query, csv_data))

\* A key string: some literal characters followed by a hex digest.
KeyString(prefix, digest) == prefix \o digest

FreePrefix == <<"f", "r", "e", "e", "_">>

\* cache_key of /analyze: the digest itself.
LlmCacheKey(query, csv_content) == KeyString(<<>>, get_cache_key(query, csv_content))

\* The digest used as it is, without the prefix.
FreeCacheKeyBare(query, csv_content) == LlmCacheKey(query, csv_content)

\* cache_key of /analyze-free: f"free_{get_cache_key(...)}".
FreeCacheKey(query, csv_content) == KeyString(FreePrefix, get_cache_key(query, csv_content))

HashRefLen == 8

\* cache_key[:8]: the first 8 characters of the key string.
ShortHash(key) == The({SubSeq(k, 1, Min(HashRefLen, Len(k))) : k \in {key}})

(***************************************************************************)
(* State                                                                   *)
(***************************************************************************)

VARIABLES
  CLAUDE_AVAILABLE,        \* the import flags of lines 10-29
  OPENAI_AVAILABLE,
  TRANSFORMERS_AVAILABLE,
  ANTHROPIC_API_KEY,       \* the credentials in the environment (truthy or not)
  OPENAI_API_KEY,
  COMPENSATED_SUM,         \* the interpreter: sum() adds floats with a compensation
                           \* term (CPython 3.12 and later) or without
  invoices_csv,            \* the file invoices.csv
  cache,                   \* the dict cache: key string -> AnalysisResponse
  model_loaded,            \* _model is not None
  pc,                      \* where the event loop's one running handler is
  op,                      \* the route of the running handler
  req,                     \* its request body
  frame,                   \* its local variables across the provider call
  result,                  \* what it returned or raised
  trace,                   \* what it did so far, in order
  served,                  \* history: the last response returned per (route, query, dataset text)
  prev,                    \* history: what served held for this request when it began
  nreq,                    \* analyze requests started so far
  arg,                     \* the inputs of a function applied on its own
  out                      \* and what it returned

vars == <<CLAUDE_AVAILABLE, OPENAI_AVAILABLE, TRANSFORMERS_AVAILABLE, ANTHROPIC_API_KEY,
          OPENAI_API_KEY, COMPENSATED_SUM, invoices_csv, cache, model_loaded, pc, op, req, frame,
          result, trace, served, prev, nreq, arg, out>>

\* The service's own state, which the function-level specifications leave alone.
server == <<CLAUDE_AVAILABLE, OPENAI_AVAILABLE, TRANSFORMERS_AVAILABLE, ANTHROPIC_API_KEY,
            OPENAI_API_KEY, COMPENSATED_SUM, invoices_csv, cache, model_loaded, pc, op, req, frame,
            result, trace, served, prev, nreq>>

config == <<CLAUDE_AVAILABLE, OPENAI_AVAILABLE, TRANSFORMERS_AVAILABLE, ANTHROPIC_API_KEY,
            OPENAI_API_KEY, COMPENSATED_SUM, invoices_csv>>

\* The argument and the result of a function applied on its own.
call == <<arg, out>>

\* One entry of trace: what happened, with the attempt number or the amount it
\* concerns, and the text a provider returned.
EvText(e, n, text) == [e |-> e, n |-> n, text |-> text]
Ev(e, n) == EvText(e, n, "")

\* No key: the empty string.
NoKey == <<>>
NoAnalysis == [branch |-> "none"]
NoResponse == [analysis |-> NoAnalysis, invoices_analyzed |-> 0, query_hash |-> ShortHash(NoKey)]
NoPrompt == [total_invoices |-> 0, listed |-> <<>>, has_more |-> FALSE, more |-> 0, query |-> <<>>]
NoFrame == [cache_key |-> NoKey, csv_content |-> <<>>, invoices_analyzed |-> 0,
            prompt |-> NoPrompt, attempt |-> 0, wait |-> 0]
NoResult == [status |-> 0, detail |-> "", body |-> NoResponse]
NoRequest == [query |-> <<>>, csv_data |-> NoCsv]
NoPrev == [some |-> FALSE, response |-> NoResponse]

Ok(response) == [status |-> 200, detail |-> "", body |-> response]
Fail(status, detail) == [status |-> status, detail |-> detail, body |-> NoResponse]

AnalysisResponse(analysis, n, cache_key) ==
  [analysis |-> analysis, invoices_analyzed |-> n, query_hash |-> ShortHash(cache_key)]

NoArg == [fn |-> "none"]
NoOut == [done |-> FALSE]

\* The process after start-up: nothing cached, no model loaded, no request.
InitServer ==
  /\ cache = <<>>
  /\ model_loaded = FALSE
  /\ pc = "idle"
  /\ op = "none"
  /\ req = NoRequest
  /\ frame = NoFrame
  /\ result = NoResult
  /\ trace = <<>>
  /\ served = <<>>
  /\ prev = NoPrev
  /\ nreq = 0

\* Any combination of installed libraries, credentials, interpreter and
\* persisted dataset.
Init ==
  /\ CLAUDE_AVAILABLE \in BOOLEAN
  /\ OPENAI_AVAILABLE \in BOOLEAN
  /\ TRANSFORMERS_AVAILABLE \in BOOLEAN
  /\ ANTHROPIC_API_KEY \in BOOLEAN
  /\ OPENAI_API_KEY \in BOOLEAN
  /\ COMPENSATED_SUM \in BOOLEAN
  /\ invoices_csv \in Files
  /\ InitServer
  /\ arg = NoArg
  /\ out = NoOut

(***************************************************************************)
(* call_llm under @retry(stop_after_attempt(3),                            *)
(* wait_exponential(multiplier=1, min=4, max=10),                          *)
(* retry_if_exception_type(Exception))                                     *)
(***************************************************************************)

StopAfterAttempt == 3
WaitMultiplier == 1
WaitMin == 4
WaitMax == 10

\* stop_after_attempt off by one: a fourth attempt is made.
ShouldStopLate(attempt) == attempt > StopAfterAttempt

\* stop_after_attempt: no further attempt once this many were made.
ShouldStop(attempt) == attempt >= StopAfterAttempt

\* wait_exponential: multiplier * 2^(attempt - 1), kept within [min, max].
wait_exponential(attempt) ==
  Max(WaitMin, Min(WaitMultiplier * Pow2(attempt - 1), WaitMax))

\* retry_if_exception_type(Exception): every exception the body raises is
\* retried, the HTTPException of line 197 included.
ShouldRetry(error) == error \in {"raise_claude", "raise_openai", "raise_config"}

\* line 157
ClaudeUsable == CLAUDE_AVAILABLE /\ ANTHROPIC_API_KEY

\* line 173
OpenAIUsable == OPENAI_AVAILABLE /\ OPENAI_API_KEY

\* line 169: the Claude failure is raised only `if not openai_key`.
ClaudeErrorRaised == ~OPENAI_API_KEY

\* A step of call_llm runs to the next point where the handler blocks (a
\* provider call, the sleep before a retry) or to its end:
\* [pc, attempt, wait, trace].
Blocked(where, attempt, wait, t) == [pc |-> where, attempt |-> attempt, wait |-> wait, trace |-> t]

\* The body raised `error` in attempt n: tenacity stops with RetryError or
\* sleeps and runs the body again.
Raise(error, n, t) ==
  LET t1 == Append(t, Ev(error, n)) IN
  IF ~ShouldRetry(error) THEN Blocked("failed", n, 0, Append(t1, Ev("reraise", n)))
  ELSE IF ShouldStop(n) THEN Blocked("failed", n, 0, Append(t1, Ev("RetryError", n)))
  ELSE Blocked("backoff", n, wait_exponential(n),
               Append(t1, Ev("sleep", wait_exponential(n))))

\* lines 172-197: the OpenAI branch, then the configuration error.
OpenAIStage(n, t) ==
  IF OpenAIUsable THEN Blocked("openai_call", n, 0, Append(t, Ev("call_openai", n)))
  ELSE Raise("raise_config", n, t)

\* The body going to OpenAI without trying Claude.
EnterBodyOpenAIFirst(n, t) == OpenAIStage(n, Append(t, Ev("body", n)))

\* lines 153-171: the body from its start.
EnterBody(n, t) ==
  LET t1 == Append(t, Ev("body", n)) IN
  IF ClaudeUsable THEN Blocked("claude_call", n, 0, Append(t1, Ev("call_claude", n)))
  ELSE OpenAIStage(n, t1)

\* lines 168-170: the Claude call raised.
AfterClaudeFailure(n, t) ==
  LET t1 == Append(t, Ev("claude_failed", n)) IN
  IF ClaudeErrorRaised THEN Raise("raise_claude", n, t1) ELSE OpenAIStage(n, t1)

\* lines 186-187: the OpenAI call raised.
AfterOpenAIFailure(n, t) == Raise("raise_openai", n, Append(t, Ev("openai_failed", n)))

(***************************************************************************)
(* The handlers. They are `async def` and never await: the provider call   *)
(* and tenacity's sleep are synchronous, so the event loop runs one        *)
(* handler from its start to its end before it starts another.             *)
(***************************************************************************)

\* The event loop is free to start a handler.
LoopFree == pc = "idle"

\* A lookup that never finds the key.
CacheHitNever(key) == FALSE

\* `if cache_key in cache`
CacheHit(key) == key \in DOMAIN cache

\* A store that keeps only the newest entry.
CachePutOnly(key, response) == (key :> response)

\* cache[cache_key] = response
CachePut(key, response) == (key :> response) @@ cache

RequestId(route, query, content) == [op |-> route, query |-> query, content |-> content]

Served(id) ==
  IF id \in DOMAIN served THEN [some |-> TRUE, response |-> served[id]] ELSE NoPrev

\* lines 243-261: the prompt, as the facts it states.
PromptLimit == 10

\* A prompt that lists every record.
BuildPromptUnbounded(query, invoices) ==
  [total_invoices |-> Len(invoices), listed |-> invoices,
   has_more |-> FALSE, more |-> 0, query |-> query]

BuildPrompt(query, invoices) ==
  [total_invoices |-> Len(invoices),
   listed |-> SubSeq(invoices, 1, Min(PromptLimit, Len(invoices))),
   has_more |-> Len(invoices) > PromptLimit,
   more |-> IF Len(invoices) > PromptLimit THEN Len(invoices) - PromptLimit ELSE 0,
   query |-> query]

\* The handler ends with `res` (a response or an HTTP error).
Return(res, t) ==
  /\ pc' = "done"
  /\ result' = res
  /\ trace' = t

\* A handler that caches a response when call_llm has failed.
ContinueCaching(next_step) ==
  \E step \in {next_step} :
  /\ frame' = [frame EXCEPT !.attempt = step.attempt, !.wait = step.wait]
  /\ IF step.pc = "failed"
       THEN /\ Return(Fail(500, "Analysis failed"), step.trace)
            /\ cache' = CachePut(frame.cache_key,
                                 AnalysisResponse([branch |-> "llm", text |-> ""],
                                                  frame.invoices_analyzed, frame.cache_key))
       ELSE /\ pc' = step.pc
            /\ trace' = step.trace
            /\ UNCHANGED <<result, cache>>
  /\ UNCHANGED served

\* The running /analyze handler goes on after a step of call_llm.
Continue(next_step) ==
  \E step \in {next_step} :
  /\ frame' = [frame EXCEPT !.attempt = step.attempt, !.wait = step.wait]
  /\ IF step.pc = "failed"
       THEN Return(Fail(500, IF step.trace[Len(step.trace)].e = "RetryError"
                               THEN "Analysis failed: RetryError"
                               ELSE "Analysis failed"), step.trace)
       ELSE /\ pc' = step.pc
            /\ trace' = step.trace
            /\ UNCHANGED result
  /\ UNCHANGED <<cache, served>>

\* lines 265-277: call_llm returned `text`.
LlmReturned(text, t) ==
  LET response == AnalysisResponse([branch |-> "llm", text |-> text],
                                   frame.invoices_analyzed, frame.cache_key) IN
  /\ cache' = CachePut(frame.cache_key, response)
  /\ served' = (RequestId(op, req.query, frame.csv_content) :> response) @@ served
  /\ Return(Ok(response), Append(t, Ev("store", 0)))
  /\ UNCHANGED frame

\* POST /analyze, lines 203-265, up to the first provider call or sleep.
AnalyzeInvoices(request) ==
  /\ LoopFree
  /\ nreq < MaxRequests
  /\ nreq' = nreq + 1
  /\ op' = "analyze"
  /\ req' = request
  /\ \E ld \in {LoadDataset(request.csv_data, invoices_csv)} :
     LET cache_key == LlmCacheKey(request.query, ld.csv_content)
         id == RequestId("analyze", request.query, ld.csv_content) IN
     IF ld.status # 0
       THEN /\ Return(Fail(ld.status, ld.detail), <<Ev("rejected", ld.status)>>)
            /\ UNCHANGED <<cache, served, frame, prev>>
     ELSE /\ prev' = Served(id)
          /\ IF CacheHit(cache_key)
               THEN /\ Return(Ok(cache[cache_key]), <<Ev("loaded", Len(ld.invoices)), Ev("hit", 0)>>)
                    /\ served' = (id :> cache[cache_key]) @@ served
                    /\ UNCHANGED <<cache, frame>>
               ELSE \E step \in {EnterBody(1, <<Ev("loaded", Len(ld.invoices)), Ev("miss", 0)>>)} :
                    /\ frame' = [cache_key |-> cache_key, csv_content |-> ld.csv_content,
                                 invoices_analyzed |-> Len(ld.invoices),
                                 prompt |-> BuildPrompt(request.query, ld.invoices),
                                 attempt |-> step.attempt, wait |-> step.wait]
                    /\ pc' = step.pc
                    /\ trace' = step.trace
                    /\ UNCHANGED <<cache, served, result>>
  /\ UNCHANGED <<call, config, model_loaded>>

\* client.messages.create returns or raises (lines 159-170).
ClaudeReturns(ok, text) ==
  /\ pc = "claude_call"
  /\ IF ok THEN LlmReturned(text, Append(trace, EvText("claude_ok", frame.attempt, text)))
     ELSE Continue(AfterClaudeFailure(frame.attempt, trace))
  /\ UNCHANGED <<call, config, model_loaded, op, req, prev, nreq>>

\* client.chat.completions.create returns or raises (lines 175-187).
OpenAIReturns(ok, text) ==
  /\ pc = "openai_call"
  /\ IF ok THEN LlmReturned(text, Append(trace, EvText("openai_ok", frame.attempt, text)))
     ELSE Continue(AfterOpenAIFailure(frame.attempt, trace))
  /\ UNCHANGED <<call, config, model_loaded, op, req, prev, nreq>>

\* tenacity's sleep ends and the body runs again.
BackoffEnds ==
  /\ pc = "backoff"
  /\ Continue(EnterBody(frame.attempt + 1, trace))
  /\ UNCHANGED <<call, config, model_loaded, op, req, prev, nreq>>

\* lines 325-341: the analysis of /analyze-free inside its try block, with
\* the checks of lines 99-104. `load_ok` is whether SentenceTransformer(...)
\* can be constructed when it has to be. [error, text, loaded, trace].
FreeAnalysis(query, invoices, load_ok, t) ==
  IF ~TRANSFORMERS_AVAILABLE
    THEN [error |-> "sentence-transformers not available", text |-> NoAnalysis,
          loaded |-> model_loaded, trace |-> t]
  ELSE IF ~model_loaded /\ ~load_ok
    THEN [error |-> "model load failed", text |-> NoAnalysis,
          loaded |-> FALSE, trace |-> Append(t, Ev("load_failed", 0))]
  ELSE With(analyze_with_transformers(query, invoices, COMPENSATED_SUM), LAMBDA a :
         LET t1 == Append(t, Ev("analyze", Len(invoices)))
             t2 == IF a.error # "ValueError" /\ a.text.branch # "customer"
                     THEN Append(t1, Ev("divide", Divisor(a.text.branch, invoices)))
                     ELSE t1 IN
         [error |-> a.error, text |-> a.text, loaded |-> TRUE, trace |-> t2])

\* POST /analyze-free, lines 288-341: the whole handler.
AnalyzeInvoicesFree(request, load_ok) ==
  /\ LoopFree
  /\ nreq < MaxRequests
  /\ nreq' = nreq + 1
  /\ op' = "analyze-free"
  /\ req' = request
  /\ \E ld \in {LoadDataset(request.csv_data, invoices_csv)} :
     LET cache_key == FreeCacheKey(request.query, ld.csv_content)
         id == RequestId("analyze-free", request.query, ld.csv_content) IN
     IF ld.status # 0
       THEN /\ Return(Fail(ld.status, ld.detail), <<Ev("rejected", ld.status)>>)
            /\ UNCHANGED <<cache, served, prev, model_loaded>>
     ELSE /\ prev' = Served(id)
          /\ IF CacheHit(cache_key)
               THEN /\ Return(Ok(cache[cache_key]), <<Ev("loaded", Len(ld.invoices)), Ev("hit", 0)>>)
                    /\ served' = (id :> cache[cache_key]) @@ served
                    /\ UNCHANGED <<cache, model_loaded>>
               ELSE \E a \in {FreeAnalysis(request.query, ld.invoices, load_ok,
                                             <<Ev("loaded", Len(ld.invoices)), Ev("miss", 0)>>)} :
                    LET response == AnalysisResponse(a.text, Len(ld.invoices), cache_key) IN
                    /\ model_loaded' = a.loaded
                    /\ IF a.error # "none"
                         THEN /\ Return(Fail(500, a.error), a.trace)
                              /\ UNCHANGED <<cache, served>>
                         ELSE /\ cache' = CachePut(cache_key, response)
                              /\ served' = (id :> response) @@ served
                              /\ Return(Ok(response), Append(a.trace, Ev("store", 0)))
  /\ UNCHANGED <<call, config, frame>>

\* GET /invoices, lines 282-286.
GetInvoices ==
  /\ LoopFree
  /\ op' = "invoices"
  /\ \E r \in {load_csv_data(invoices_csv)} :
     IF r.error # "none" THEN Return(Fail(500, r.error), <<>>)
     ELSE Return([status |-> 200, detail |-> "", body |-> NoResponse, count |-> Len(r.invoices)], <<>>)
  /\ UNCHANGED <<call, config, cache, model_loaded, req, frame, served, prev, nreq>>

\* GET /health, lines 343-346.
HealthCheck ==
  /\ LoopFree
  /\ op' = "health"
  /\ Return([status |-> 200, detail |-> "healthy", body |-> NoResponse,
             cache_size |-> Cardinality(DOMAIN cache)], <<>>)
  /\ UNCHANGED <<call, config, cache, model_loaded, req, frame, served, prev, nreq>>

\* GET /, lines 199-201.
Root ==
  /\ LoopFree
  /\ op' = "root"
  /\ Return([status |-> 200, detail |-> "Zoho Invoice Analyzer API", body |-> NoResponse], <<>>)
  /\ UNCHANGED <<call, config, cache, model_loaded, req, frame, served, prev, nreq>>

\* The handler's result goes back to the client and the event loop is free
\* again.
Respond ==
  /\ pc = "done"
  /\ pc' = "idle"
  /\ op' = "none"
  /\ req' = NoRequest
  /\ frame' = NoFrame
  /\ result' = NoResult
  /\ trace' = <<>>
  /\ prev' = NoPrev
  /\ UNCHANGED <<call, config, cache, model_loaded, served, nreq>>

Next ==
  \/ \E request \in Requests : AnalyzeInvoices(request)
  \/ \E ok \in BOOLEAN, text \in ProviderTexts : ClaudeReturns(ok, text)
  \/ \E ok \in BOOLEAN, text \in ProviderTexts : OpenAIReturns(ok, text)
  \/ BackoffEnds
  \/ \E request \in Requests, load_ok \in BOOLEAN : AnalyzeInvoicesFree(request, load_ok)
  \/ GetInvoices
  \/ HealthCheck
  \/ Root
  \/ Respond

Spec == Init /\ [][Next]_vars

\* A provider call returns or raises, a sleep ends and a finished handler
\* hands its result back: each is a blocking call of the running handler.
FairSpec ==
  /\ Spec
  /\ WF_vars(\E ok \in BOOLEAN, text \in ProviderTexts : ClaudeReturns(ok, text))
  /\ WF_vars(\E ok \in BOOLEAN, text \in ProviderTexts : OpenAIReturns(ok, text))
  /\ WF_vars(BackoffEnds)
  /\ WF_vars(Respond)

\* get_cache_key applied to the pairs of two requests.
InitKey ==
  /\ CLAUDE_AVAILABLE = FALSE
  /\ OPENAI_AVAILABLE = FALSE
  /\ TRANSFORMERS_AVAILABLE = FALSE
  /\ ANTHROPIC_API_KEY = FALSE
  /\ OPENAI_API_KEY = FALSE
  /\ COMPENSATED_SUM = FALSE
  /\ invoices_csv = NoFile
  /\ InitServer
  /\ arg \in [fn : {"get_cache_key"}, first : KeyPairs, second : KeyPairs]
  /\ out = NoOut

ApplyGetCacheKey ==
  /\ arg.fn = "get_cache_key"
  /\ ~out.done
  /\ out' = [done |-> TRUE,
             first |-> get_cache_key(arg.first.query, arg.first.csv_data),
             second |-> get_cache_key(arg.second.query, arg.second.csv_data)]
  /\ UNCHANGED <<arg, server>>

NextKey == ApplyGetCacheKey

SpecKey == InitKey /\ [][NextKey]_vars

\* The service answering /analyze-free requests with inline datasets only.
InitFree ==
  /\ CLAUDE_AVAILABLE = FALSE
  /\ OPENAI_AVAILABLE = FALSE
  /\ TRANSFORMERS_AVAILABLE \in BOOLEAN
  /\ ANTHROPIC_API_KEY = FALSE
  /\ OPENAI_API_KEY = FALSE
  /\ COMPENSATED_SUM \in BOOLEAN
  /\ invoices_csv = NoFile
  /\ InitServer
  /\ arg = NoArg
  /\ out = NoOut

NextFree ==
  \/ \E request \in FreeRequests, load_ok \in BOOLEAN : AnalyzeInvoicesFree(request, load_ok)
  \/ Respond

SpecFree == InitFree /\ [][NextFree]_vars

\* analyze_with_transformers and the prompt construction applied on their
\* own, under either interpreter where the text shows total_amount: the
\* customer ranking adds with += and the prompt adds nothing, whatever sum()
\* does.
FnArgs ==
  AmountArgs \cup RankArgs \cup DecimalRankArgs \cup SumArgs \cup ClassifyArgs \cup PromptArgs

InitFn ==
  /\ CLAUDE_AVAILABLE = FALSE
  /\ OPENAI_AVAILABLE = FALSE
  /\ TRANSFORMERS_AVAILABLE = TRUE
  /\ ANTHROPIC_API_KEY = FALSE
  /\ OPENAI_API_KEY = FALSE
  /\ invoices_csv = NoFile
  /\ InitServer
  /\ arg \in FnArgs
  /\ COMPENSATED_SUM \in (IF arg.family \in {"ranking", "prompt"} THEN {FALSE} ELSE BOOLEAN)
  /\ out = NoOut

\* analyze_with_transformers(query, invoices), lines 97-143, with the model
\* loaded by get_transformer_model (lines 47-52) when it is not yet.
ApplyAnalyze(load_ok) ==
  /\ arg.fn = "analyze_with_transformers"
  /\ ~out.done
  /\ \E a \in {FreeAnalysis(arg.query, arg.invoices, load_ok, <<>>)} :
       /\ out' = [done |-> TRUE, result |-> [error |-> a.error, text |-> a.text]]
       /\ model_loaded' = a.loaded
  /\ UNCHANGED <<arg, config, cache, pc, op, req, frame, result, trace, served, prev, nreq>>

ApplyBuildPrompt ==
  /\ arg.fn = "BuildPrompt"
  /\ ~out.done
  /\ out' = [done |-> TRUE, result |-> BuildPrompt(arg.query, arg.invoices)]
  /\ UNCHANGED <<arg, server>>

NextFn ==
  \/ \E load_ok \in BOOLEAN : ApplyAnalyze(load_ok)
  \/ ApplyBuildPrompt

SpecFn == InitFn /\ [][NextFn]_vars

(***************************************************************************)
(* Properties                                                              *)
(***************************************************************************)

\* The events of the running request.
Has(e) == \E i \in DOMAIN trace : trace[i].e = e
Count(e) == Cardinality({i \in DOMAIN trace : trace[i].e = e})
FirstIndex(e) == CHOOSE i \in DOMAIN trace :
                   trace[i].e = e /\ \A j \in 1..(i - 1) : trace[j].e # e
CountBefore(e, i) == Cardinality({j \in 1..(i - 1) : trace[j].e = e})
BothUsable == ClaudeUsable /\ OpenAIUsable
InDispatcher == pc \in {"claude_call", "openai_call", "backoff"}

\* C1: a request whose (operation, query, dataset text) already returned a
\* response ends at once with that same response (analysis, record count and
\* fingerprint prefix), and the handler made no provider call and no
\* heuristic computation.
CacheIdempotence ==
  prev.some =>
    /\ pc = "done"
    /\ result = Ok(prev.response)
    /\ ~Has("body") /\ ~Has("call_claude") /\ ~Has("call_openai")
    /\ ~Has("analyze") /\ ~Has("store")

\* A repeated /analyze request, answered from an earlier provider response.
C1_Witness ==
  /\ prev.some
  /\ op = "analyze"
  /\ Has("hit")
  /\ result.status = 200
  /\ result.body.analysis.branch = "llm"

\* C2: with both providers usable, the first OpenAI call comes after
\* exactly 3 failed Claude calls (fallback only once the retries of Claude
\* are exhausted, never after its first or second failure).
FallbackAfterExhaustion ==
  (BothUsable /\ Has("call_openai")) =>
    CountBefore("claude_failed", FirstIndex("call_openai")) = StopAfterAttempt

\* The calls of one request stay within the attempts, and a finished
\* dispatcher either returned a provider's text or failed.
RetryBounded ==
  /\ Count("call_claude") <= StopAfterAttempt
  /\ Count("call_openai") <= StopAfterAttempt
  /\ Count("body") <= StopAfterAttempt
  /\ (pc = "done" /\ Has("body")) =>
       \/ result.status = 200 /\ (Has("claude_ok") \/ Has("openai_ok"))
       \/ result.status = 500 /\ (Has("RetryError") \/ Has("reraise"))

\* C3: in one request each provider is called at most 3 times whatever
\* fails, and a request inside the dispatcher always comes to its end, with
\* a provider's text or with an error.
BoundedRetry == []RetryBounded /\ (InDispatcher ~> pc = "done")

\* Both providers failed in all three attempts and the request failed.
C3_Witness ==
  /\ Count("call_claude") = StopAfterAttempt
  /\ Count("call_openai") = StopAfterAttempt
  /\ Has("RetryError")
  /\ pc = "done"
  /\ result.status = 500

\* C4: with no usable provider the dispatcher body runs exactly once and the
\* request fails with the configuration error, without retry or sleep.
ConfigErrorImmediate ==
  (~ClaudeUsable /\ ~OpenAIUsable /\ Has("body")) =>
    /\ Count("body") = 1
    /\ ~Has("sleep")
    /\ Has("raise_config")
    /\ pc = "done"
    /\ result.status = 500

\* C5: a provider that was called and failed, with no usable provider after
\* it, makes its attempt raise that provider's failure, never the
\* configuration error.
FailureNotReplaced ==
  \A i \in DOMAIN trace :
    /\ (trace[i].e = "claude_failed" /\ ~OpenAIUsable) =>
         i < Len(trace) /\ trace[i + 1] = Ev("raise_claude", trace[i].n)
    /\ trace[i].e = "openai_failed" =>
         i < Len(trace) /\ trace[i + 1] = Ev("raise_openai", trace[i].n)

\* C6: two (query, dataset text) pairs get the same fingerprint exactly when
\* the pairs are equal.
FingerprintInjective ==
  out.done => ((out.first = out.second) <=> (arg.first = arg.second))

\* The key string starts with free_.
HasFreePrefix(k) == Len(k) >= Len(FreePrefix) /\ SubSeq(k, 1, Len(FreePrefix)) = FreePrefix

\* The keys the two operations give to the requests of the model.
LlmKeys == {LlmCacheKey(r.query, r.csv_data.text) : r \in Requests}
FreeKeys == {FreeCacheKey(r.query, r.csv_data.text) : r \in Requests}

\* C7: no key of /analyze equals a key of /analyze-free, for equal or
\* different pairs, so the cache holds provider responses only under
\* unprefixed keys and heuristic responses only under prefixed ones, and
\* neither operation returns a response the other stored.
KeySeparation ==
  /\ LlmKeys \cap FreeKeys = {}
  /\ \A k \in DOMAIN cache :
       HasFreePrefix(k) <=> (cache[k].analysis.branch # "llm")
  /\ (pc = "done" /\ result.status = 200 /\ op = "analyze") =>
       result.body.analysis.branch = "llm"
  /\ (pc = "done" /\ result.status = 200 /\ op = "analyze-free") =>
       result.body.analysis.branch # "llm"

\* The same query and dataset went through both operations: the cache holds
\* both responses, under keys with the same digest.
C7_Witness ==
  \E k1 \in DOMAIN cache, k2 \in DOMAIN cache :
    /\ Len(k1) = HexLen
    /\ k2 = FreePrefix \o k1
    /\ cache[k1].analysis.branch = "llm"
    /\ cache[k2].analysis.branch # "llm"

\* C8: an empty record set is rejected before the cache lookup; it reaches
\* neither the analyzer nor any of its divisions.
ZeroDivisionSafety ==
  \A i \in DOMAIN trace :
    trace[i].e \in {"analyze", "divide"} => trace[i].n > 0

\* C9: a key once in the cache stays, with the value first stored under it,
\* and the number of entries never decreases.
CacheImmutable ==
  [][/\ \A k \in DOMAIN cache : k \in DOMAIN cache' /\ cache'[k] = cache[k]
     /\ Cardinality(DOMAIN cache') >= Cardinality(DOMAIN cache)]_vars

\* health reports two entries: a second response was stored beside the
\* first.
C9_Witness ==
  /\ op = "health"
  /\ pc = "done"
  /\ result.cache_size = 2

\* C10: while a request is in a provider call or in the sleep before a
\* retry, health and the record listing can be started.
NonBlockingDispatch == InDispatcher => ENABLED (HealthCheck \/ GetInvoices)

\* A non-negative numeral: digits with at most one point.
WellFormedAmount(a) ==
  /\ \A i \in 1..Len(a) : a[i] \in Digits \cup {"."}
  /\ \E i \in 1..Len(a) : a[i] \in Digits
  /\ CountChar(a, ".") <= 1

\* The amount of a well-formed numeral of at most two decimals, in
\* hundredths.
RECURSIVE to_int(_)
to_int(s) == IF s = <<>> THEN 0 ELSE 10 * to_int(SubSeq(s, 1, Len(s) - 1)) + DigitValue(s[Len(s)])

DecimalCents(amount) ==
  LET dot == IF CountChar(amount, ".") = 0 THEN Len(amount) + 1
             ELSE CHOOSE i \in 1..Len(amount) : amount[i] = "."
      whole == SubSeq(amount, 1, dot - 1)
      frac == SubSeq(amount, dot + 1, Len(amount)) \o <<"0", "0">> IN
  to_int(whole) * CentsPerUnit + to_int(SubSeq(frac, 1, 2))

\* The exact sum of the well-formed amounts from record k on, in hundredths:
\* of all records, and of the records of one customer.
RECURSIVE ExactCents(_, _)
ExactCents(invoices, k) ==
  IF k > Len(invoices) THEN 0
  ELSE (IF WellFormedAmount(invoices[k].amount) THEN DecimalCents(invoices[k].amount) ELSE 0)
       + ExactCents(invoices, k + 1)

RECURSIVE ExactCustomerCents(_, _, _)
ExactCustomerCents(invoices, k, name) ==
  IF k > Len(invoices) THEN 0
  ELSE (IF invoices[k].customer = name /\ WellFormedAmount(invoices[k].amount)
          THEN DecimalCents(invoices[k].amount) ELSE 0)
       + ExactCustomerCents(invoices, k + 1, name)

\* The record set with every malformed amount replaced by 0.
MalformedAsZero(invoices) ==
  [k \in 1..Len(invoices) |->
     IF WellFormedAmount(invoices[k].amount) THEN invoices[k]
     ELSE [invoices[k] EXCEPT !.amount = <<"0">>]]

\* C11: for a non-empty record set the analysis never fails, counts every
\* record, and sums (overall and per customer) what it would sum with every
\* malformed amount replaced by 0.
MalformedAmountsHarmless ==
  (out.done /\ arg.family = "amounts" /\ model_loaded) =>
    /\ out.result.error = "none"
    /\ out.result.text.branch \in {"revenue", "count", "overview"} =>
         out.result.text.total_invoices = Len(arg.invoices)
    /\ out.result.text.branch \in {"revenue", "status", "overview"} =>
         out.result.text.total_amount = ExactCents(MalformedAsZero(arg.invoices), 1)
    /\ out.result.text.branch = "customer" =>
         \A i \in 1..Len(out.result.text.top) :
           out.result.text.top[i].amount =
             ExactCustomerCents(MalformedAsZero(arg.invoices), 1, out.result.text.top[i].name)

\* Where the customer first occurs in the record set, and what its amounts
\* add up to, in hundredths.
FirstOccurrence(invoices, name) ==
  CHOOSE k \in 1..Len(invoices) :
    invoices[k].customer = name /\ \A j \in 1..(k - 1) : invoices[j].customer # name

SummedAmount(invoices, name) == ExactCustomerCents(invoices, 1, name)

\* a is ranked before b: a larger sum, or the same sum and an earlier first
\* occurrence.
RankedBefore(invoices, a, b) ==
  \/ SummedAmount(invoices, a) > SummedAmount(invoices, b)
  \/ /\ SummedAmount(invoices, a) = SummedAmount(invoices, b)
     /\ FirstOccurrence(invoices, a) < FirstOccurrence(invoices, b)

\* C12: the customer ranking lists at most 5 customers, the first ones in
\* descending order of summed amount, customers of equal sums in the order of
\* their first occurrence in the record set.
RankingStable ==
  (out.done /\ arg.family = "ranking" /\ arg.invoices # <<>> /\ model_loaded) =>
    LET top == out.result.text.top
        names == {arg.invoices[k].customer : k \in 1..Len(arg.invoices)} IN
    /\ out.result.error = "none"
    /\ Len(top) = Min(TopN, Cardinality(names))
    /\ \A i \in 1..Len(top) :
         /\ top[i].name \in names
         /\ top[i].amount = SummedAmount(arg.invoices, top[i].name)
    /\ \A i \in 1..Len(top), j \in 1..Len(top) :
         i < j => RankedBefore(arg.invoices, top[i].name, top[j].name)
    /\ \A i \in 1..Len(top) :
         \A c \in names \ {top[j].name : j \in 1..Len(top)} :
           RankedBefore(arg.invoices, top[i].name, c)

\* The same letter, whatever the case.
SameLetter(a, b) ==
  a = b \/ \E k \in 1..Len(UpperCase) : {a, b} = {UpperCase[k], LowerCase[k]}

\* The word occurs somewhere in the query, whatever the case of the query's
\* letters.
OccursIn(word, query) ==
  \E i \in 0..(Len(query) - Len(word)) :
    \A j \in 1..Len(word) : SameLetter(query[i + j], word[j])

Mentions(words, query) == \E w \in words : OccursIn(w, query)

\* C13: the branch is the first of revenue, customer, status, count that has
\* a keyword occurring in the query in any case and at any position, and the
\* general overview exactly when no keyword occurs.
ClassificationPriority ==
  (out.done /\ arg.family = "classify" /\ model_loaded) =>
    LET branch == out.result.text.branch
        q == arg.query IN
    /\ (branch = "revenue") <=> Mentions(RevenueWords, q)
    /\ (branch = "customer") <=>
         (~Mentions(RevenueWords, q) /\ Mentions(CustomerWords, q))
    /\ (branch = "status") <=>
         (~Mentions(RevenueWords \cup CustomerWords, q) /\ Mentions(StatusWords, q))
    /\ (branch = "count") <=>
         (~Mentions(RevenueWords \cup CustomerWords \cup StatusWords, q)
          /\ Mentions(CountWords, q))
    /\ (branch = "overview") <=>
         ~Mentions(RevenueWords \cup CustomerWords \cup StatusWords \cup CountWords, q)

\* "countWhoSUM": keywords of three categories, the revenue keyword last and
\* in capitals, and the revenue branch selected.
C13_Witness ==
  /\ out.done
  /\ model_loaded
  /\ arg.family = "classify"
  /\ arg.query = <<"c", "o", "u", "n", "t", "W", "h", "o", "S", "U", "M">>
  /\ out.result.text.branch = "revenue"

\* C14: a second request with the fingerprint of a request that has missed
\* the cache and has not stored yet can start, so that both analyse and both
\* store.
DuplicateCanOverlap ==
  (InDispatcher /\ nreq < MaxRequests) => ENABLED AnalyzeInvoices(req)

\* C15: the cache changes only in the step that ends a request with a
\* successful response, and then by exactly that response under a new key;
\* a request that ends in a failure changes nothing.
NoPartialSuccess ==
  [][/\ cache' # cache =>
          /\ pc' = "done"
          /\ result'.status = 200
          /\ \E k \in DOMAIN cache' \ DOMAIN cache :
               cache' = (k :> result'.body) @@ cache
     /\ (pc' = "done" /\ result'.status # 200) => cache' = cache]_vars

\* A request failed after three attempts while the cache held an earlier
\* response.
C15_Witness ==
  /\ pc = "done"
  /\ result.status = 500
  /\ Has("RetryError")
  /\ cache # <<>>

\* C16: the waits of one request between failed provider calls grow from one
\* retry to the next unless the maximum has been reached, and none exceeds
\* the maximum.
BackoffEscalates ==
  \A i \in DOMAIN trace :
    (trace[i].e = "sleep" /\ ~Has("raise_config")) =>
      /\ trace[i].n <= WaitMax
      /\ \A j \in (i + 1)..Len(trace) :
           trace[j].e = "sleep" => (trace[i].n < trace[j].n \/ trace[i].n = WaitMax)

\* C18: OpenAI is called in an attempt only if in that attempt Claude was
\* skipped or was called and failed; and after a provider call has succeeded
\* the request calls no provider again.
ProviderOrder ==
  \A i \in DOMAIN trace :
    /\ trace[i].e = "call_openai" =>
         \/ \E j \in 1..(i - 1) : trace[j] = Ev("claude_failed", trace[i].n)
         \/ /\ ~ClaudeUsable
            /\ ~\E j \in DOMAIN trace : trace[j] = Ev("call_claude", trace[i].n)
    /\ trace[i].e \in {"claude_ok", "openai_ok"} =>
         \A j \in (i + 1)..Len(trace) : trace[j].e \notin {"call_claude", "call_openai"}

\* Both providers failed in the first attempt; in the second Claude failed
\* again and OpenAI answered.
C18_Witness ==
  /\ Count("call_claude") = 2
  /\ Count("claude_failed") = 2
  /\ Count("call_openai") = 2
  /\ Has("openai_ok")
  /\ pc = "done"

\* C17: for n records the prompt states the total n, lists the first
\* min(n, 10) records in their order, and has the remainder line, stating
\* n - 10, exactly when n > 10.
BoundedPrompt ==
  (out.done /\ arg.family = "prompt") =>
    LET n == Len(arg.invoices)
        p == out.result IN
    /\ p.total_invoices = n
    /\ Len(p.listed) = IF n < 10 THEN n ELSE 10
    /\ \A i \in 1..Len(p.listed) : p.listed[i] = arg.invoices[i]
    /\ p.has_more <=> n > 10
    /\ p.has_more => p.more = n - 10

\* Twelve records: ten listed and a remainder of two.
C17_Witness ==
  /\ out.done
  /\ arg.family = "prompt"
  /\ Len(arg.invoices) = 12
  /\ Len(out.result.listed) = 10
  /\ out.result.has_more
  /\ out.result.more = 2

\* What /analyze-free answers to the request when nothing is cached.
FreshResponse(request) ==
  With(LoadDataset(request.csv_data, invoices_csv), LAMBDA ld :
    AnalysisResponse(analyze_with_transformers(request.query, ld.invoices, COMPENSATED_SUM).text,
                     Len(ld.invoices), FreeCacheKey(request.query, ld.csv_content)))

\* C19: every response of /analyze-free to a request with an inline dataset,
\* from the cache or computed, is the response a fresh analysis of the
\* request's query and dataset gives.
CacheTransparent ==
  (pc = "done" /\ op = "analyze-free" /\ result.status = 200) =>
    result.body = FreshResponse(req)

====
